---- MODULE Spec2Model ----
(***************************************************************************)
(* Model of app.py: a Flask login gateway with a static-credential login   *)
(* and a Keycloak OAuth2 Authorization Code + PKCE flow whose state lives  *)
(* in the Flask session.                                                   *)
(*                                                                         *)
(* Each request handler is one action.  The external parties (the browser  *)
(* that chooses the query parameters, the Keycloak token and userinfo      *)
(* endpoints, the cloud token and inventory endpoints, the ping probe) are *)
(* nondeterministic inputs of the action.  A second specification serves   *)
(* two callbacks concurrently, one step per outbound call, for the         *)
(* properties about interleaving and termination.                          *)
(*                                                                         *)
(* Abstractions:                                                           *)
(*  - secrets.token_urlsafe(32) returns a value never returned before      *)
(*    (tokens are numbered in the order they are drawn);                   *)
(*  - SHA-256 + base64url is a symbolic one-way term over the verifier;    *)
(*  - HTTP bodies of the token, userinfo and inventory endpoints are JSON  *)
(*    objects when they decode at all; a body that does not decode raises  *)
(*    requests.exceptions.JSONDecodeError, a RequestException;             *)
(*  - Python's None and "" are both falsy wherever the code tests them and *)
(*    are one value here (None for strings, NoTok for tokens).             *)
(***************************************************************************)
EXTENDS Integers, Sequences, FiniteSets, TLC

\* ------------------------------------------------------------------ bounds
\* number of secrets.token_urlsafe draws the model follows (two per init)
MaxDraws == 4

\* ---------------------------------------------------------- value domains
\* Python None / absent / empty for string-valued data
None == "None"
\* Python None / absent for the state and verifier tokens (tokens are 1, 2, ...)
NoTok == 0
\* session.get("all_vms") when the key is not set
NoCount == -1

\* browser sessions (cookie jars): two, so that one can replay what the other was issued
Sessions == {"s1", "s2"}

\* project id written into the inventory URL
HardcodedProject == "49abf5c8-9f16-4ca3-b5d3-5eca9bfac631"

\* values the browser can put in the query string
ErrorParams == {None, "access_denied"}
ErrorDescriptions == {None, "User denied access"}
CodeParams == {None, "c1"}
StateParams == 0..MaxDraws

\* responses of the token endpoint, as the callback tells them apart
ExchangeResponses == {"request_exception", "error_payload", "no_access_token", "token"}

\* responses of the userinfo endpoint, as the callback tells them apart
\*   request_exception : requests.get raised, or the 200 body did not decode
\*   non_200           : status_code /= 200
\*   non_object        : 200 whose JSON is null
\*   claims            : 200 with a JSON object
UserinfoResponses == {"request_exception", "non_200", "non_object", "claims"}

\* the JSON objects a userinfo response is drawn from: no key at all, only keys
\* the callback does not read (other), a full profile with a project, a profile
\* with name but no preferred_username and no project
ClaimsObjects ==
  { [email |-> None, preferred_username |-> None, name |-> None,
     cloud_project_id |-> None, other |-> FALSE],
    [email |-> None, preferred_username |-> None, name |-> None,
     cloud_project_id |-> None, other |-> TRUE],
    [email |-> "a@b.com", preferred_username |-> "alice", name |-> "Alice A",
     cloud_project_id |-> "P1", other |-> TRUE],
    [email |-> "a@b.com", preferred_username |-> None, name |-> "Alice A",
     cloud_project_id |-> None, other |-> TRUE] }

\* user_info = None
NoUserInfo ==
  [email |-> None, preferred_username |-> None, name |-> None,
   cloud_project_id |-> None, other |-> FALSE]

\* responses of the two cloud endpoints to one get_all_vms_in_cloud call
\*   total = NoCount : the inventory JSON has no "total" key
CloudResponses ==
  { [token |-> "request_exception", inventory |-> "not_called", total |-> NoCount],
    [token |-> "ok", inventory |-> "request_exception", total |-> NoCount],
    [token |-> "ok", inventory |-> "ok", total |-> NoCount],
    [token |-> "ok", inventory |-> "ok", total |-> 7] }

\* no cloud call made
NoCloudResponse == [token |-> "not_called", inventory |-> "not_called", total |-> NoCount]

\* module-level configuration read from the environment at import time
Configs ==
  [KEYCLOAK_URL : BOOLEAN, KEYCLOAK_REALM : BOOLEAN,
   KEYCLOAK_CLIENT_ID : BOOLEAN, APP_ORIGIN : BOOLEAN]

VARIABLES
  config,     \* which configuration values are non-empty (fixed at start)
  session,    \* the Flask session of each browser
  draws,      \* number of secrets.token_urlsafe values drawn so far
  last,       \* the last request served: its inputs, what it called, its response
  issuedTo,   \* history: the states that init stored in each session
  proof,      \* history: a callback on this session matched an issued state and got a token
  latest,     \* history: the state and verifier generated by the last successful init
  req         \* callback requests being served step by step (stepwise specifications)

vars == <<config, session, draws, last, issuedTo, proof, latest, req>>

\* ---------------------------------------------------------------- session
\* a session with no key set
EmptySession ==
  [is_authed |-> FALSE, auth_provider |-> None, user_email |-> None,
   user_name |-> None, user_cloud_project_id |-> None, all_vms |-> NoCount,
   keycloak_state |-> NoTok, keycloak_code_verifier |-> NoTok]

\* symbolic S256 transform of a verifier
generate_code_challenge(code_verifier) == [b64url_sha256 |-> code_verifier]

\* the record of a request before the handler fills it in
NoRequest ==
  [sid |-> "s1", handler |-> "none", outcome |-> "none", detail |-> None,
   error |-> None, error_description |-> None, state |-> NoTok, code |-> None,
   calls |-> << >>, ex |-> "not_called", ui |-> "not_called",
   claims |-> NoUserInfo, rc |-> << >>,
   sent_code |-> None, sent_verifier |-> NoTok, inv_projects |-> << >>,
   url_state |-> NoTok, url_challenge |-> generate_code_challenge(NoTok),
   url_method |-> None, ping |-> "not_run"]

\* no flow initiated yet
NoPair == [state |-> NoTok, verifier |-> NoTok]

\* the callback requests followed step by step: two, so that they can overlap
Requests == {"r1", "r2"}

\* the session the stepwise callbacks are sent on (the other one only initiates flows)
ConcSessions == {"s1"}

\* a callback request the browser has not sent yet
IdleRequest ==
  [pc |-> "idle", sid |-> "s1", sess |-> EmptySession, state |-> NoTok, code |-> None,
   hung |-> FALSE, claims |-> NoUserInfo]

Init ==
  /\ config \in Configs
  /\ session = [s \in Sessions |-> EmptySession]
  /\ draws = 0
  /\ last = NoRequest
  /\ issuedTo = [s \in Sessions |-> {}]
  /\ proof = [s \in Sessions |-> FALSE]
  /\ latest = [s \in Sessions |-> NoPair]
  /\ req = [r \in Requests |-> IdleRequest]

\* ------------------------------------------------------- login and logout
\* POST /login; credsOk is  login_val == USERNAME and password_val == PASSWORD
login(s) ==
  \E credsOk \in BOOLEAN :
    /\ session' = [session EXCEPT ![s].is_authed = IF credsOk THEN TRUE ELSE @]
    /\ last' = [NoRequest EXCEPT !.sid = s, !.handler = "login",
                  !.outcome = IF credsOk THEN "login_ok" ELSE "login_failed"]
    /\ UNCHANGED <<config, draws, issuedTo, proof, latest, req>>

\* POST /logout: session.clear()
logout(s) ==
  /\ session' = [session EXCEPT ![s] = EmptySession]
  /\ last' = [NoRequest EXCEPT !.sid = s, !.handler = "logout", !.outcome = "logged_out"]
  /\ proof' = [proof EXCEPT ![s] = FALSE]
  /\ UNCHANGED <<config, draws, issuedTo, latest, req>>

\* ------------------------------------------------------------- flow init
\* secrets.token_urlsafe(32): a value never returned before, drawn being the
\* number of values drawn so far
token_urlsafe(drawn) == drawn + 1

\* generate_code_verifier()
generate_code_verifier(drawn) == token_urlsafe(drawn)

\* the configuration check of init: the error it answers, or None
ConfigurationError(cfg) ==
  IF ~cfg.KEYCLOAK_URL \/ ~cfg.KEYCLOAK_REALM \/ ~cfg.KEYCLOAK_CLIENT_ID
  THEN "keycloak_not_configured"
  ELSE IF ~cfg.APP_ORIGIN THEN "app_origin_not_configured"
  ELSE None

\* the ping probe is run only with a complete configuration
PingResult(cfg, pingFails) ==
  IF ConfigurationError(cfg) # None THEN "not_run"
  ELSE IF pingFails THEN "failed" ELSE "ok"

\* init that keeps a PendingFlow the session already holds
StorePendingFlowKeepsOld(sess, state, code_verifier) ==
  IF sess.keycloak_state # NoTok THEN sess
  ELSE [sess EXCEPT !.keycloak_state = state, !.keycloak_code_verifier = code_verifier]

\* init that stores the state under both keys
StorePendingFlowStateTwice(sess, state, code_verifier) ==
  [sess EXCEPT !.keycloak_state = state, !.keycloak_code_verifier = state]

\* init that stores the state only
StorePendingFlowStateOnly(sess, state, code_verifier) ==
  [sess EXCEPT !.keycloak_state = state]

\* session['keycloak_state'] = state; session['keycloak_code_verifier'] = code_verifier
StorePendingFlow(sess, state, code_verifier) ==
  [sess EXCEPT !.keycloak_state = state, !.keycloak_code_verifier = code_verifier]

\* init that stores the PendingFlow before it probes the provider
SessionAfterFailedInitStoresFlow(sess, drawn) ==
  StorePendingFlow(sess, token_urlsafe(drawn + 1), generate_code_verifier(drawn))

\* the session a failing init leaves: the returns at the configuration checks and
\* at the ping come before anything is generated or stored
SessionAfterFailedInit(sess, drawn) == sess

\* POST /oauth/keycloak/init; pingFails is a non-zero exit status of the ping
keycloak_oauth_init(s) ==
  \E pingFails \in BOOLEAN :
    LET req0 == [NoRequest EXCEPT !.sid = s, !.handler = "init",
                                  !.ping = PingResult(config, pingFails)]
    IN
    IF ConfigurationError(config) # None
    THEN /\ last' = [req0 EXCEPT !.outcome = ConfigurationError(config)]
         /\ session' = [session EXCEPT ![s] = SessionAfterFailedInit(@, draws)]
         /\ UNCHANGED <<config, draws, issuedTo, proof, latest, req>>
    ELSE IF pingFails
    THEN /\ last' = [req0 EXCEPT !.outcome = "network_issues"]
         /\ session' = [session EXCEPT ![s] = SessionAfterFailedInit(@, draws)]
         /\ UNCHANGED <<config, draws, issuedTo, proof, latest, req>>
    ELSE LET code_verifier == generate_code_verifier(draws)
             code_challenge == generate_code_challenge(code_verifier)
             state == token_urlsafe(draws + 1)
         IN /\ draws + 2 <= MaxDraws
            /\ draws' = draws + 2
            /\ session' = [session EXCEPT ![s] = StorePendingFlow(@, state, code_verifier)]
            /\ issuedTo' = [issuedTo EXCEPT ![s] = @ \cup {state}]
            /\ latest' = [latest EXCEPT ![s] = [state |-> state, verifier |-> code_verifier]]
            /\ last' = [req0 EXCEPT !.outcome = "init_ok", !.url_state = state,
                          !.url_challenge = code_challenge, !.url_method = "S256"]
            /\ UNCHANGED <<config, proof, req>>

\* ---------------------------------------------------------- cloud lookups
\* get_access_token_from_cloud(): raise_for_status or a transport error raises
get_access_token_from_cloud(r) ==
  [raised |-> r.token # "ok", calls |-> <<"cloud_token">>]

\* get_all_vms_in_cloud(cloud_project_id_for_token) against the responses r:
\* what it returns or that it raised, the calls it made, the project it asked for
get_all_vms_in_cloud(cloud_project_id_for_token, r) ==
  LET token == get_access_token_from_cloud(r) IN
  IF token.raised
  THEN [raised |-> TRUE, value |-> NoCount, calls |-> token.calls, projects |-> << >>]
  ELSE [raised |-> r.inventory # "ok",
        value |-> IF r.inventory # "ok" THEN NoCount
                  ELSE IF r.total = NoCount THEN 0 ELSE r.total,
        calls |-> token.calls \o <<"inventory">>,
        projects |-> <<HardcodedProject>>]

\* --------------------------------------------------------------- callback
\* the flash without the fallback to the error code
ProviderErrorMessageNoFallback(error, error_description) == error_description

\* the text put in the provider-error flash: error_description or error
ProviderErrorMessage(error, error_description) ==
  IF error_description # None THEN error_description ELSE error

\* the state check without the comparison against the session
StateCheckOnlyPresence(state, stored_state) == state = NoTok

\* the state check without the test for an absent state
StateCheckOnlyCompare(state, stored_state) == state # stored_state

\* if not state or state != stored_state
StateCheckFails(state, stored_state) ==
  state = NoTok \/ state # stored_state

\* the callback without the test for an absent code
CodeNeverMissing(code) == FALSE

\* if not code
CodeMissing(code) == code = None

\* if not code_verifier
VerifierMissing(code_verifier) == code_verifier = NoTok

\* the exchange without the test for an absent access_token
ExchangeFailureNoTokenTest(ex) ==
  CASE ex = "request_exception" -> "api_error"
    [] ex = "error_payload" -> "exchange_error"
    [] OTHER -> None

\* the exchange without the test for an error payload
ExchangeFailureNoErrorTest(ex) ==
  CASE ex = "request_exception" -> "api_error"
    [] ex = "no_access_token" -> "no_access_token"
    [] OTHER -> None

\* the failure the callback reports for a token-endpoint response, or None
ExchangeFailure(ex) ==
  CASE ex = "request_exception" -> "api_error"
    [] ex = "error_payload" -> "exchange_error"
    [] ex = "no_access_token" -> "no_access_token"
    [] OTHER -> None

\* bool(user_info) for a JSON object: it has at least one key
Truthy(user_info) ==
  \/ user_info.email # None
  \/ user_info.preferred_username # None
  \/ user_info.name # None
  \/ user_info.cloud_project_id # None
  \/ user_info.other

\* the display name taken from name first
UserNamePrefersName(user_info) ==
  IF user_info.name # None THEN user_info.name ELSE user_info.preferred_username

\* user_info.get('preferred_username') or user_info.get('name')
UserName(user_info) ==
  IF user_info.preferred_username # None THEN user_info.preferred_username
  ELSE user_info.name

\* what a callback leaves behind: the session, the response, the calls made
Result(sess, outcome) ==
  [sess |-> sess, outcome |-> outcome, detail |-> None, calls |-> << >>,
   ex |-> "not_called", ui |-> "not_called", claims |-> NoUserInfo, rc |-> << >>,
   sent_code |-> None, sent_verifier |-> NoTok, inv_projects |-> << >>]

\* the callback from the userinfo request on (access_token obtained), base holding
\* the exchange already made; ui/claims the userinfo response, rc1/rc2 the cloud
\* responses to the first and second get_all_vms_in_cloud call
AfterExchange(sess, base, ui, claims, rc1, rc2) ==
  LET withUi == [base EXCEPT !.calls = @ \o <<"userinfo">>, !.ui = ui,
                             !.claims = IF ui = "claims" THEN claims ELSE NoUserInfo]
  IN
  IF ui # "claims"
  THEN \* user_info is None: user_info.get raises AttributeError, which no except catches
       [withUi EXCEPT !.outcome = "crash"]
  ELSE
    LET user_info == claims
        cloud_project_id_for_token == user_info.cloud_project_id
        first == get_all_vms_in_cloud(cloud_project_id_for_token, rc1)
        withFirst == [withUi EXCEPT !.calls = @ \o first.calls, !.rc = <<rc1>>,
                                    !.inv_projects = @ \o first.projects]
    IN
    IF first.raised
    THEN [withFirst EXCEPT !.outcome = "api_error"]
    ELSE
      LET authed == [sess EXCEPT !.is_authed = TRUE, !.auth_provider = "keycloak"]
          cleaned(x) == [x EXCEPT !.keycloak_state = NoTok,
                                  !.keycloak_code_verifier = NoTok]
      IN
      IF ~Truthy(user_info)
      THEN [withFirst EXCEPT !.outcome = "finalized", !.sess = cleaned(authed)]
      ELSE
        LET stored == [authed EXCEPT !.user_email = user_info.email,
                                     !.user_name = UserName(user_info),
                                     !.user_cloud_project_id = user_info.cloud_project_id]
            second == get_all_vms_in_cloud(cloud_project_id_for_token, rc2)
            withSecond == [withFirst EXCEPT !.calls = @ \o second.calls,
                                            !.rc = @ \o <<rc2>>,
                                            !.inv_projects = @ \o second.projects]
        IN
        IF second.raised
        THEN [withSecond EXCEPT !.outcome = "api_error", !.sess = stored]
        ELSE [withSecond EXCEPT !.outcome = "finalized",
                                !.sess = cleaned([stored EXCEPT !.all_vms = second.value])]

\* the whole callback handler on session value sess
Callback(sess, error, error_description, state, code, ex, ui, claims, rc1, rc2) ==
  LET stored_state == sess.keycloak_state
      code_verifier == sess.keycloak_code_verifier
  IN
  IF error # None
  THEN [Result(sess, "provider_error") EXCEPT
          !.detail = ProviderErrorMessage(error, error_description)]
  ELSE IF StateCheckFails(state, stored_state)
  THEN Result(sess, "csrf_mismatch")
  ELSE IF CodeMissing(code)
  THEN Result(sess, "missing_code")
  ELSE IF VerifierMissing(code_verifier)
  THEN Result(sess, "missing_verifier")
  ELSE
    LET exchanged == [Result(sess, "none") EXCEPT !.calls = <<"token">>, !.ex = ex,
                        !.sent_code = code, !.sent_verifier = code_verifier]
    IN
    IF ExchangeFailure(ex) # None
    THEN [exchanged EXCEPT !.outcome = ExchangeFailure(ex)]
    ELSE AfterExchange(sess, exchanged, ui, claims, rc1, rc2)

\* the callback gets as far as the token request
ReachesExchange(sess, error, state, code) ==
  /\ error = None
  /\ ~StateCheckFails(state, sess.keycloak_state)
  /\ ~CodeMissing(code)
  /\ ~VerifierMissing(sess.keycloak_code_verifier)

\* the external responses a callback that reaches the token request can meet,
\* each listed up to the first call that is not made
Environments ==
  LET E(ex, ui, claims, rc1, rc2) ==
        [ex |-> ex, ui |-> ui, claims |-> claims, rc1 |-> rc1, rc2 |-> rc2]
      raises(r) == r.token # "ok" \/ r.inventory # "ok"
  IN
  { E(ex, "not_called", NoUserInfo, NoCloudResponse, NoCloudResponse) :
      ex \in ExchangeResponses \ {"token"} }
  \cup
  { E("token", ui, NoUserInfo, NoCloudResponse, NoCloudResponse) :
      ui \in UserinfoResponses \ {"claims"} }
  \cup
  UNION { { E("token", "claims", c, rc1, NoCloudResponse) :
              rc1 \in {r \in CloudResponses : raises(r) \/ ~Truthy(c)} } :
          c \in ClaimsObjects }
  \cup
  { E("token", "claims", c, rc1, rc2) :
      c \in {x \in ClaimsObjects : Truthy(x)},
      rc1 \in {r \in CloudResponses : ~raises(r)}, rc2 \in CloudResponses }

\* a callback that makes no outbound call
NoEnvironment ==
  [ex |-> "not_called", ui |-> "not_called", claims |-> NoUserInfo,
   rc1 |-> NoCloudResponse, rc2 |-> NoCloudResponse]

\* GET /oauth/keycloak/callback
keycloak_oauth_callback(s) ==
  \E error \in ErrorParams, state \in StateParams, code \in CodeParams :
    \E error_description \in (IF error = None THEN {None} ELSE ErrorDescriptions),
       env \in (IF ReachesExchange(session[s], error, state, code)
                THEN Environments ELSE {NoEnvironment}) :
      \E r \in {Callback(session[s], error, error_description, state, code,
                          env.ex, env.ui, env.claims, env.rc1, env.rc2)} :
      /\ session' = [session EXCEPT ![s] = r.sess]
      /\ last' = [NoRequest EXCEPT !.sid = s, !.handler = "callback",
                    !.outcome = r.outcome, !.detail = r.detail,
                    !.error = error, !.error_description = error_description,
                    !.state = state, !.code = code,
                    !.calls = r.calls, !.ex = r.ex, !.ui = r.ui, !.claims = r.claims,
                    !.rc = r.rc, !.sent_code = r.sent_code,
                    !.sent_verifier = r.sent_verifier, !.inv_projects = r.inv_projects]
      /\ proof' = [proof EXCEPT ![s] =
                     @ \/ (error = None /\ state \in issuedTo[s] /\ r.ex = "token")]
      /\ UNCHANGED <<config, draws, issuedTo, latest, req>>

\* ---------------------------------------------------------- specification
Next ==
  \E s \in Sessions :
    \/ login(s)
    \/ logout(s)
    \/ keycloak_oauth_init(s)
    \/ keycloak_oauth_callback(s)

Spec == Init /\ [][Next]_vars

\* ------------------------------------------------- callback, step by step
\* The same handler served concurrently: a request opens its own copy of the
\* session when it is received (the session is the cookie the browser sent), runs
\* the checks of lines 151-169 on it, and then blocks on each outbound call in
\* turn; the response writes the copy back (every flash modifies the session, so
\* Flask re-sends the cookie).  The history variables issuedTo, proof and latest
\* belong to the one-request-at-a-time specification and are not advanced here.

\* the outbound calls made with a timeout argument
HasTimeout(call) == call \in {"token", "userinfo"}

\* what an endpoint can answer
Response(kind, claims, total) == [kind |-> kind, claims |-> claims, total |-> total]

\* the answers of the endpoint a request at pc = call waits for
EndpointResponses(call) ==
  CASE call = "token" ->
         { Response(k, NoUserInfo, NoCount) : k \in ExchangeResponses }
    [] call = "userinfo" ->
         { Response(k, NoUserInfo, NoCount) : k \in UserinfoResponses \ {"claims"} }
         \cup { Response("claims", c, NoCount) : c \in ClaimsObjects }
    [] call \in {"cloud_token_1", "cloud_token_2"} ->
         { Response(k, NoUserInfo, NoCount) : k \in {"ok", "request_exception"} }
    [] call \in {"inventory_1", "inventory_2"} ->
         { Response("request_exception", NoUserInfo, NoCount),
           Response("ok", NoUserInfo, NoCount), Response("ok", NoUserInfo, 7) }

\* requests.exceptions.Timeout, a RequestException
TimeoutResponse == Response("request_exception", NoUserInfo, NoCount)

\* the handler resumed with the answer to the call it waits for: the call it
\* blocks on next (pc), or the response it gives (pc = "done" and outcome)
Continue(rq, resp) ==
  LET goes(pc, sess, claims) ==
        [pc |-> pc, sess |-> sess, claims |-> claims, outcome |-> "none"]
      ends(outcome, sess) ==
        [pc |-> "done", sess |-> sess, claims |-> rq.claims, outcome |-> outcome]
      cleaned(x) == [x EXCEPT !.keycloak_state = NoTok, !.keycloak_code_verifier = NoTok]
      total == IF resp.total = NoCount THEN 0 ELSE resp.total
  IN
  CASE rq.pc = "token" ->
         IF ExchangeFailure(resp.kind) # None
         THEN ends(ExchangeFailure(resp.kind), rq.sess)
         ELSE goes("userinfo", rq.sess, rq.claims)
    [] rq.pc = "userinfo" ->
         IF resp.kind # "claims"
         THEN ends("crash", rq.sess)
         ELSE goes("cloud_token_1", rq.sess, resp.claims)
    [] rq.pc = "cloud_token_1" ->
         IF resp.kind # "ok" THEN ends("api_error", rq.sess)
         ELSE goes("inventory_1", rq.sess, rq.claims)
    [] rq.pc = "inventory_1" ->
         IF resp.kind # "ok" THEN ends("api_error", rq.sess)
         ELSE LET authed == [rq.sess EXCEPT !.is_authed = TRUE,
                                            !.auth_provider = "keycloak"]
              IN IF ~Truthy(rq.claims)
                 THEN ends("finalized", cleaned(authed))
                 ELSE goes("cloud_token_2",
                           [authed EXCEPT
                              !.user_email = rq.claims.email,
                              !.user_name = UserName(rq.claims),
                              !.user_cloud_project_id = rq.claims.cloud_project_id],
                           rq.claims)
    [] rq.pc = "cloud_token_2" ->
         IF resp.kind # "ok" THEN ends("api_error", rq.sess)
         ELSE goes("inventory_2", rq.sess, rq.claims)
    [] rq.pc = "inventory_2" ->
         IF resp.kind # "ok" THEN ends("api_error", rq.sess)
         ELSE ends("finalized", cleaned([rq.sess EXCEPT !.all_vms = total]))

\* request r resumes with resp: it blocks on its next call, which the endpoint
\* will answer or not (hung), or it responds and the browser stores the cookie
Resume(r, resp) ==
  \E n \in {Continue(req[r], resp)} :
    IF n.pc = "done"
    THEN /\ req' = [req EXCEPT ![r] = [IdleRequest EXCEPT !.pc = "done"]]
         /\ session' = [session EXCEPT ![req[r].sid] =
                          IF n.outcome = "crash" THEN @ ELSE n.sess]
         /\ last' = [NoRequest EXCEPT !.sid = req[r].sid, !.handler = "callback",
                                      !.outcome = n.outcome]
         /\ UNCHANGED <<config, draws, issuedTo, proof, latest>>
    ELSE \E hung \in BOOLEAN :
         /\ req' = [req EXCEPT ![r] = [@ EXCEPT !.pc = n.pc, !.sess = n.sess,
                                                !.claims = n.claims, !.hung = hung]]
         /\ UNCHANGED <<config, session, draws, last, issuedTo, proof, latest>>

\* callback request r arrives: lines 146-169, then the token request
CbReceive(r) ==
  /\ req[r].pc = "idle"
  /\ \E s \in ConcSessions, error \in ErrorParams, state \in StateParams, code \in CodeParams :
       IF ReachesExchange(session[s], error, state, code)
       THEN \E hung \in BOOLEAN :
            /\ req' = [req EXCEPT ![r] =
                         [pc |-> "token", sid |-> s, sess |-> session[s], state |-> state,
                          code |-> code, hung |-> hung, claims |-> NoUserInfo]]
            /\ UNCHANGED <<config, session, draws, last, issuedTo, proof, latest>>
       ELSE /\ req' = [req EXCEPT ![r] = [IdleRequest EXCEPT !.pc = "done"]]
            /\ last' = [NoRequest EXCEPT
                          !.sid = s, !.handler = "callback",
                          !.outcome = Callback(session[s], error, None, state, code,
                                               NoEnvironment.ex, NoEnvironment.ui,
                                               NoEnvironment.claims, NoEnvironment.rc1,
                                               NoEnvironment.rc2).outcome]
            /\ UNCHANGED <<config, session, draws, issuedTo, proof, latest>>

\* the endpoint request r waits for answers
CbAnswer(r) ==
  /\ req[r].pc \notin {"idle", "done"}
  /\ ~req[r].hung
  /\ \E resp \in EndpointResponses(req[r].pc) : Resume(r, resp)

\* the endpoint never answers and the call was made with timeout=10
CbTimeout(r) ==
  /\ req[r].pc \notin {"idle", "done"}
  /\ req[r].hung
  /\ HasTimeout(req[r].pc)
  /\ Resume(r, TimeoutResponse)

\* init and concurrent callbacks
NextConc ==
  \/ \E s \in Sessions : keycloak_oauth_init(s)
  \/ \E r \in Requests : CbReceive(r)
  \/ \E r \in Requests : CbAnswer(r)
  \/ \E r \in Requests : CbTimeout(r)

SpecConc == Init /\ [][NextConc]_vars

\* the server keeps serving: an answer that arrived is processed and a timeout
\* that expired is raised
SpecLive ==
  /\ Init
  /\ [][NextConc]_vars
  /\ \A r \in Requests : WF_vars(CbAnswer(r)) /\ WF_vars(CbTimeout(r))

\* ------------------------------------------------------------ vocabulary
\* the responses that surface an error flash to the user
FailedOutcomes ==
  {"provider_error", "csrf_mismatch", "missing_code", "missing_verifier",
   "exchange_error", "no_access_token", "api_error"}

\* the flashes of a failed code exchange
ExchangeErrorOutcomes == {"api_error", "exchange_error", "no_access_token"}

\* the authentication and identity/resource part of a session
AuthView(sess) ==
  <<sess.is_authed, sess.auth_provider, sess.user_name, sess.user_email,
    sess.user_cloud_project_id, sess.all_vms>>

\* the session holds no PendingFlow at all
NoPendingFlow(sess) ==
  sess.keycloak_state = NoTok /\ sess.keycloak_code_verifier = NoTok

ExternallyAuthenticated(sess) ==
  sess.is_authed /\ sess.auth_provider = "keycloak"

\* ------------------------------------------------------------------- C1
\* C1: a session is authenticated with provider keycloak only if a callback on
\* that session (since its last logout) carried a state that init stored in
\* that session and its code exchange returned an access token.
C1_ExternalAuthNeedsProof ==
  \A s \in Sessions : ExternallyAuthenticated(session[s]) => proof[s]

\* a callback finalized a session while the other session had been issued a state
C1_Witness ==
  /\ last.handler = "callback"
  /\ last.outcome = "finalized"
  /\ ExternallyAuthenticated(session[last.sid])
  /\ \E o \in Sessions \ {last.sid} : issuedTo[o] # {}

\* ------------------------------------------------------------------- C2
\* C2: a callback that ends by flashing an error leaves is_authed, auth_provider
\* and the identity/resource fields of the session as they were before it.
C2_FailedRestoresSession ==
  [][ (last'.handler = "callback" /\ last'.outcome \in FailedOutcomes)
        => AuthView(session'[last'.sid]) = AuthView(session[last'.sid]) ]_vars

\* ------------------------------------------------------------------- C3
\* C3: a callback without an error parameter whose state is absent or differs
\* from the stored state (no stored state included) fails with csrf_mismatch,
\* changes nothing in the session and makes no outbound call.
C3_StateMismatchFails ==
  [][ ( /\ last'.handler = "callback"
        /\ last'.error = None
        /\ \/ last'.state = NoTok
           \/ last'.state # session[last'.sid].keycloak_state )
        => /\ last'.outcome = "csrf_mismatch"
           /\ last'.calls = << >>
           /\ session'[last'.sid] = session[last'.sid] ]_vars

\* a callback with a state issued to the other session failed on a session that
\* holds a PendingFlow of its own
C3_Witness ==
  /\ last.handler = "callback"
  /\ last.outcome = "csrf_mismatch"
  /\ session[last.sid].keycloak_state # NoTok
  /\ last.state # session[last.sid].keycloak_state
  /\ \E o \in Sessions \ {last.sid} : last.state \in issuedTo[o]

\* ------------------------------------------------------------------- C4
\* C4: a callback that marks the session authenticated leaves no stored state and
\* no stored verifier, and a callback that follows it on that session with the
\* same state fails with csrf_mismatch without calling the token endpoint.
C4_FinalizeDeletesPendingFlow ==
  [][ /\ ( /\ last'.handler = "callback"
           /\ ~ExternallyAuthenticated(session[last'.sid])
           /\ ExternallyAuthenticated(session'[last'.sid]) )
          => NoPendingFlow(session'[last'.sid])
      /\ ( /\ last.handler = "callback"
           /\ last.error = None
           /\ "token" \in {last.calls[i] : i \in DOMAIN last.calls}
           /\ ExternallyAuthenticated(session[last.sid])
           /\ last'.handler = "callback"
           /\ last'.sid = last.sid
           /\ last'.error = None
           /\ last'.state = last.state
           /\ last'.code = last.code )
          => (last'.outcome = "csrf_mismatch" /\ last'.calls = << >>) ]_vars

\* ------------------------------------------------------------------- C5
\* C5: after a callback whose state matched ended in missing_code,
\* missing_verifier or an exchange failure, the next callback on that session
\* with the same state fails with csrf_mismatch and makes no outbound call.
C5_FailedConsumesPendingFlow ==
  [][ ( /\ last.handler = "callback"
        /\ last.outcome \in {"missing_code", "missing_verifier"} \cup ExchangeErrorOutcomes
        /\ last.ex # "token"
        /\ last'.handler = "callback"
        /\ last'.sid = last.sid
        /\ last'.error = None
        /\ last'.state = last.state )
        => (last'.outcome = "csrf_mismatch" /\ last'.calls = << >>) ]_vars

\* ------------------------------------------------------------------- C6
\* C6: when the exchange returned a token and the identity lookup failed, the
\* callback finalizes: the session is authenticated with provider keycloak, the
\* identity/resource fields stay unset and the PendingFlow is removed.
C6_IdentityFailureNonFatal ==
  [][ ( /\ last'.handler = "callback"
        /\ last'.ex = "token"
        /\ last'.ui \in {"request_exception", "non_200", "non_object"} )
        => /\ last'.outcome = "finalized"
           /\ ExternallyAuthenticated(session'[last'.sid])
           /\ session'[last'.sid].user_name = session[last'.sid].user_name
           /\ session'[last'.sid].user_email = session[last'.sid].user_email
           /\ session'[last'.sid].user_cloud_project_id
                = session[last'.sid].user_cloud_project_id
           /\ session'[last'.sid].all_vms = session[last'.sid].all_vms
           /\ NoPendingFlow(session'[last'.sid]) ]_vars

\* ------------------------------------------------------------------- C7
\* C7: when the exchange returned a token and the claims carry a project id, a
\* failing get_all_vms_in_cloud call (token step or inventory step) still ends in
\* a finalized, authenticated session with the identity fields stored, all_vms
\* not written and the PendingFlow removed.
C7_ResourceFailureNonFatal ==
  [][ ( /\ last'.handler = "callback"
        /\ last'.ex = "token"
        /\ last'.ui = "claims"
        /\ last'.claims.cloud_project_id # None
        /\ \E i \in DOMAIN last'.rc :
              last'.rc[i].token # "ok" \/ last'.rc[i].inventory # "ok" )
        => /\ last'.outcome = "finalized"
           /\ ExternallyAuthenticated(session'[last'.sid])
           /\ session'[last'.sid].user_email = last'.claims.email
           /\ session'[last'.sid].user_name = UserName(last'.claims)
           /\ session'[last'.sid].user_cloud_project_id = last'.claims.cloud_project_id
           /\ session'[last'.sid].all_vms = session[last'.sid].all_vms
           /\ NoPendingFlow(session'[last'.sid]) ]_vars

\* ------------------------------------------------------------------- C8
\* C8: a callback whose code exchange fails (transport failure, error payload, no
\* access_token) ends with an exchange-error flash, leaves the session as it was
\* and has called nothing but the token endpoint.
C8_ExchangeFailureAborts ==
  [][ ( /\ last'.handler = "callback"
        /\ last'.ex \in {"request_exception", "error_payload", "no_access_token"} )
        => /\ last'.outcome \in ExchangeErrorOutcomes
           /\ last'.calls = <<"token">>
           /\ session'[last'.sid] = session[last'.sid] ]_vars

\* the token endpoint answered without an access_token and the session stayed
\* unauthenticated with its PendingFlow
C8_Witness ==
  /\ last.handler = "callback"
  /\ last.ex = "no_access_token"
  /\ last.outcome = "no_access_token"
  /\ ~session[last.sid].is_authed
  /\ last.calls = <<"token">>

\* ------------------------------------------------------------------- C9
\* C9: a callback without an error parameter, with the stored state but without a
\* code fails with missing_code, makes no outbound call and leaves the session
\* as it was.
C9_MissingCodeFails ==
  [][ ( /\ last'.handler = "callback"
        /\ last'.error = None
        /\ last'.state # NoTok
        /\ last'.state = session[last'.sid].keycloak_state
        /\ last'.code = None )
        => /\ last'.outcome = "missing_code"
           /\ last'.calls = << >>
           /\ session'[last'.sid] = session[last'.sid] ]_vars

\* a callback with the stored state and no code was answered missing_code
C9_Witness ==
  /\ last.handler = "callback"
  /\ last.outcome = "missing_code"
  /\ last.state = session[last.sid].keycloak_state
  /\ last.code = None
  /\ ~session[last.sid].is_authed

\* ------------------------------------------------------------------ C10
\* C10 as stated: a callback with an error parameter fails with provider_error
\* whatever its state and code are, makes no outbound call, leaves the session as
\* it was, and its flash carries the error value.
C10_ProviderErrorShowsErrorValue ==
  [][ (last'.handler = "callback" /\ last'.error # None)
        => /\ last'.outcome = "provider_error"
           /\ last'.calls = << >>
           /\ session'[last'.sid] = session[last'.sid]
           /\ last'.detail = last'.error ]_vars

\* C10 as amended: the same, the flash carrying the error_description when the
\* request has one and the error value only when it has none.
C10_ProviderErrorShowsDescriptionOrError ==
  [][ (last'.handler = "callback" /\ last'.error # None)
        => /\ last'.outcome = "provider_error"
           /\ last'.calls = << >>
           /\ session'[last'.sid] = session[last'.sid]
           /\ (last'.error_description # None => last'.detail = last'.error_description)
           /\ (last'.error_description = None => last'.detail = last'.error) ]_vars

\* a callback with an error, an error_description, the stored state and a code
\* was answered provider_error with the description, the PendingFlow untouched
C10_Witness ==
  /\ last.handler = "callback"
  /\ last.error = "access_denied"
  /\ last.error_description # None
  /\ last.outcome = "provider_error"
  /\ last.detail = last.error_description
  /\ last.state # NoTok
  /\ last.state = session[last.sid].keycloak_state
  /\ last.code # None
  /\ ~session[last.sid].is_authed

\* ------------------------------------------------------------------ C11
\* C11: after an init with a complete configuration and a successful ping, the
\* authorization URL carries the state stored in the session, the S256 challenge
\* of the verifier stored in the session and code_challenge_method=S256, and the
\* stored state is not the stored verifier.
C11_InitStoresWhatItSends ==
  (last.handler = "init" /\ last.ping = "ok")
    => /\ last.outcome = "init_ok"
       /\ session[last.sid].keycloak_state # NoTok
       /\ session[last.sid].keycloak_code_verifier # NoTok
       /\ last.url_state = session[last.sid].keycloak_state
       /\ last.url_challenge.b64url_sha256 = session[last.sid].keycloak_code_verifier
       /\ last.url_method = "S256"
       /\ session[last.sid].keycloak_state # session[last.sid].keycloak_code_verifier

\* an init succeeded on a session that already held a PendingFlow
C11_Witness ==
  /\ last.handler = "init"
  /\ last.outcome = "init_ok"
  /\ Cardinality(issuedTo[last.sid]) = 2
  /\ last.url_state = session[last.sid].keycloak_state

\* ------------------------------------------------------------------ C12
\* C12: a successful init leaves the session holding exactly the pair it
\* generated; a callback carrying a state of an earlier init of that session
\* fails with csrf_mismatch without an outbound call; a callback carrying the
\* stored (latest) state and a code is exchanged with the latest verifier.
C12_OnePendingFlowPerSession ==
  [][ /\ (last'.handler = "init" /\ last'.outcome = "init_ok")
          => /\ session'[last'.sid].keycloak_state = latest'[last'.sid].state
             /\ session'[last'.sid].keycloak_code_verifier = latest'[last'.sid].verifier
      /\ ( /\ last'.handler = "callback"
           /\ last'.error = None
           /\ last'.state \in issuedTo[last'.sid] \ {latest[last'.sid].state} )
          => (last'.outcome = "csrf_mismatch" /\ last'.calls = << >>)
      /\ ( /\ last'.handler = "callback"
           /\ last'.error = None
           /\ last'.code # None
           /\ last'.state # NoTok
           /\ last'.state = session[last'.sid].keycloak_state )
          => /\ last'.state = latest[last'.sid].state
             /\ last'.ex # "not_called"
             /\ last'.sent_verifier = latest[last'.sid].verifier ]_vars

\* after two inits on a session, a callback with the second state was exchanged
\* with the second verifier
C12_Witness ==
  /\ last.handler = "callback"
  /\ Cardinality(issuedTo[last.sid]) = 2
  /\ last.state = latest[last.sid].state
  /\ last.ex # "not_called"
  /\ last.sent_verifier = latest[last.sid].verifier

\* ------------------------------------------------------------------ C13
\* C13: an init with an incomplete configuration or a failing ping answers an
\* error, leaves every session as it was and draws no token.
C13_FailedInitChangesNothing ==
  [][ (last'.handler = "init" /\ last'.ping # "ok")
        => /\ last'.outcome \in {"keycloak_not_configured", "app_origin_not_configured",
                                 "network_issues"}
           /\ session' = session
           /\ draws' = draws ]_vars

\* the ping failed on a session that holds a PendingFlow, which is still there
C13_Witness ==
  /\ last.handler = "init"
  /\ last.ping = "failed"
  /\ last.outcome = "network_issues"
  /\ session[last.sid].keycloak_state # NoTok
  /\ session[last.sid].keycloak_code_verifier # NoTok

\* ------------------------------------------------------------------ C14
\* C14: a callback with the stored state and a code, a token from the exchange,
\* userinfo {email, preferred_username, cloud_project_id} and both inventory
\* queries answered, the stored one with total K, ends finalized with
\* is_authed, provider keycloak, the three identity fields, all_vms = K and no
\* PendingFlow.
C14_ScenarioC ==
  [][ ( /\ last'.handler = "callback"
        /\ last'.ex = "token"
        /\ last'.ui = "claims"
        /\ last'.claims.email # None
        /\ last'.claims.preferred_username # None
        /\ last'.claims.cloud_project_id # None
        /\ Len(last'.rc) = 2
        /\ last'.rc[2].inventory = "ok"
        /\ last'.rc[2].total # NoCount )
        => /\ last'.outcome = "finalized"
           /\ ExternallyAuthenticated(session'[last'.sid])
           /\ session'[last'.sid].user_email = last'.claims.email
           /\ session'[last'.sid].user_name = last'.claims.preferred_username
           /\ session'[last'.sid].user_cloud_project_id = last'.claims.cloud_project_id
           /\ session'[last'.sid].all_vms = last'.rc[2].total
           /\ NoPendingFlow(session'[last'.sid]) ]_vars

\* scenario C happened: alice of project P1 with 7 machines
C14_Witness ==
  /\ last.handler = "callback"
  /\ last.outcome = "finalized"
  /\ session[last.sid].user_email = "a@b.com"
  /\ session[last.sid].user_name = "alice"
  /\ session[last.sid].user_cloud_project_id = "P1"
  /\ session[last.sid].all_vms = 7
  /\ NoPendingFlow(session[last.sid])

\* ------------------------------------------------------------------ C16
\* C16: a finalized callback has called get_all_vms_in_cloud once when its
\* identity claims carry a project id, and not at all otherwise.
C16_ResourceCounterOnceIfProject ==
  (last.handler = "callback" /\ last.outcome = "finalized")
    => Len(last.rc) = (IF last.claims.cloud_project_id # None THEN 1 ELSE 0)

\* ------------------------------------------------------------------ C17
\* C17: every inventory query of a callback whose claims carry a project id is
\* made for that project id.
C17_InventoryForUsersProject ==
  (last.handler = "callback" /\ last.claims.cloud_project_id # None)
    => \A i \in DOMAIN last.inv_projects :
          last.inv_projects[i] = last.claims.cloud_project_id

\* ------------------------------------------------------------------ C18
\* C18: in every session the stored state and the stored verifier are both
\* present or both absent, and no callback ends in missing_verifier.
C18_StateAndVerifierTogether ==
  /\ \A s \in Sessions :
        (session[s].keycloak_state = NoTok) <=> (session[s].keycloak_code_verifier = NoTok)
  /\ last.outcome # "missing_verifier"

\* a callback with the stored state and a code got past the verifier check, and
\* the session still holds both values
C18_Witness ==
  /\ last.handler = "callback"
  /\ last.outcome = "exchange_error"
  /\ last.state = session[last.sid].keycloak_state
  /\ session[last.sid].keycloak_code_verifier # NoTok

\* ------------------------------------------------------------------ C19
\* C19: the calls of a callback are ordered: the token request is the first call
\* and the only token request; the userinfo request is the second call and is made
\* only when the exchange returned a token; the cloud calls come after the
\* userinfo request.
C19_CallOrder ==
  last.handler = "callback" =>
    \A i \in DOMAIN last.calls :
      /\ last.calls[i] = "token" => i = 1
      /\ last.calls[i] = "userinfo" => (i = 2 /\ last.calls[1] = "token" /\ last.ex = "token")
      /\ last.calls[i] \in {"cloud_token", "inventory"}
           => (i > 2 /\ last.calls[1] = "token" /\ last.calls[2] = "userinfo"
               /\ last.ex = "token")

\* a callback made all of its calls
C19_Witness ==
  /\ last.handler = "callback"
  /\ last.calls = <<"token", "userinfo", "cloud_token", "inventory",
                    "cloud_token", "inventory">>

\* ------------------------------------------------------------------ C15
\* C15: of two callbacks served concurrently for the same session with the same
\* state, at most one passes the state check and reaches the code exchange.
C15_OneConcurrentCallbackPasses ==
  \A r1, r2 \in Requests :
    ( /\ r1 # r2
      /\ req[r1].pc \notin {"idle", "done"}
      /\ req[r2].pc \notin {"idle", "done"}
      /\ req[r1].sid = req[r2].sid )
      => req[r1].state # req[r2].state

\* ------------------------------------------------------------------ C20
\* C20: every callback that was received and blocks on an outbound call
\* eventually responds.
C20_CallbackTerminates ==
  \A r \in Requests : (req[r].pc # "idle") ~> (req[r].pc = "done")

====
